---------------------------- MODULE Spec2Model ----------------------------
(***************************************************************************)
(* Model of the JSON normalisation and flattening pipeline of the PDF      *)
(* extraction system: app/pipeline/schema.py (validate_json_structure,     *)
(* _clean_data) and app/pipeline/excel_writer.py (ExcelWriter).            *)
(*                                                                         *)
(* Python text is a sequence of characters, each a one-character string    *)
(* (the backtick is the token Backtick).  A Python value is                *)
(* a record tagged with its Python type name:                              *)
(*   [t |-> "NoneType"]                 None                               *)
(*   [t |-> "bool",  b |-> BOOLEAN]     True / False                       *)
(*   [t |-> "int",   n |-> Int]         an integer                         *)
(*   [t |-> "float", lit |-> text]      a float, kept as its literal       *)
(*   [t |-> "str",   s |-> text]        a string                           *)
(*   [t |-> "list",  elems |-> Seq]     a list                             *)
(*   [t |-> "dict",  items |-> Seq]     a dict: <<key, value>> pairs in    *)
(*                                      insertion order, keys unique       *)
(***************************************************************************)
EXTENDS Integers, Sequences, FiniteSets, TLC

(***************************************************************************)
(* Text primitives (str.strip, str.startswith, str.split, str.join,        *)
(* str.lower) as the code uses them.                                       *)
(***************************************************************************)

\* Characters str.strip() removes (the ASCII ones of str.isspace).
PyWhitespace == {" ", "\n", "\t", "\r", "\f"}

\* Characters the JSON decoder skips between tokens.
JsonWhitespace == {" ", "\t", "\n", "\r"}

\* The indices of s that hold a character outside PyWhitespace.
Inked(s) == {i \in 1..Len(s) : s[i] \notin PyWhitespace}

\* s.strip(): from the first to the last such character.
Strip(s) ==
    IF Inked(s) = {} THEN <<>>
    ELSE SubSeq(s,
                CHOOSE i \in Inked(s) : \A j \in Inked(s) : i <= j,
                CHOOSE i \in Inked(s) : \A j \in Inked(s) : j <= i)

StartsWith(s, p) == Len(s) >= Len(p) /\ SubSeq(s, 1, Len(p)) = p

\* The backtick character (written as a named token: the TLA+ lexer does not
\* accept a backtick inside a string).
Backtick == "BACKTICK"

Fence == <<Backtick, Backtick, Backtick>>

\* The indices of the newlines of s, with 0 and Len(s) + 1 as the two ends.
Breaks(s) == {0, Len(s) + 1} \cup {i \in 1..Len(s) : s[i] = "\n"}

\* s.split("\n"): the text between consecutive breaks; always at least one
\* line.
SplitLines(s) ==
    LET brk == Breaks(s)
        nth(k) == CHOOSE i \in brk : Cardinality({j \in brk : j < i}) = k
    IN  [k \in 1..(Cardinality(brk) - 1) |->
            SubSeq(s, nth(k - 1) + 1, nth(k) - 1)]

\* sep.join(parts)
RECURSIVE Join(_, _)
Join(sep, parts) ==
    IF parts = <<>> THEN <<>>
    ELSE IF Len(parts) = 1 THEN parts[1]
    ELSE parts[1] \o sep \o Join(sep, Tail(parts))

JoinLines(lines) == Join(<<"\n">>, lines)

LowerChar(c) ==
    CASE c = "C" -> "c"
      [] c = "O" -> "o"
      [] c = "M" -> "m"
      [] c = "E" -> "e"
      [] c = "N" -> "n"
      [] c = "T" -> "t"
      [] c = "S" -> "s"
      [] c = "A" -> "a"
      [] c = "X" -> "x"
      [] OTHER -> c

Lower(s) == [i \in 1..Len(s) |-> LowerChar(s[i])]

(***************************************************************************)
(* Python values.                                                          *)
(***************************************************************************)
NoneV == [t |-> "NoneType"]
BoolV(b) == [t |-> "bool", b |-> b]
IntV(n) == [t |-> "int", n |-> n]
FloatV(lit) == [t |-> "float", lit |-> lit]
StrV(s) == [t |-> "str", s |-> s]
ListV(elems) == [t |-> "list", elems |-> elems]
DictV(items) == [t |-> "dict", items |-> items]

IsDict(v) == v.t = "dict"
IsList(v) == v.t = "list"
IsStr(v) == v.t = "str"

\* A plausible slip: the name of the type of type(v).
TypeNameOfType(v) == "type"

\* type(v).__name__
TypeName(v) == v.t

DictKeys(items) == [i \in 1..Len(items) |-> items[i][1]]

HasKey(items, k) == \E i \in 1..Len(items) : items[i][1] = k

\* d[k] = v on a dict: an existing key keeps its position and takes the new
\* value, a new key goes to the end.
DictSet(items, k, v) ==
    IF HasKey(items, k)
    THEN [i \in 1..Len(items) |->
            IF items[i][1] = k THEN <<k, v>> ELSE items[i]]
    ELSE Append(items, <<k, v>>)

\* d.get(k, default)
DictGet(items, k, default) ==
    IF HasKey(items, k)
    THEN items[CHOOSE i \in 1..Len(items) : items[i][1] = k][2]
    ELSE default

(***************************************************************************)
(* json.loads: the strict decoder of the standard library (json.decoder,   *)
(* json.scanner), which schema.py calls at lines 66 and 88.  A parse       *)
(* returns [ok, v, i]: whether a value was read, the value, and the index  *)
(* after it.  Not decoded: the \b and \uXXXX escapes and the NaN/Infinity  *)
(* literals, which no text of the model contains.                          *)
(***************************************************************************)
Digits == {"0", "1", "2", "3", "4", "5", "6", "7", "8", "9"}

DigitVal(c) ==
    CASE c = "0" -> 0 [] c = "1" -> 1 [] c = "2" -> 2 [] c = "3" -> 3
      [] c = "4" -> 4 [] c = "5" -> 5 [] c = "6" -> 6 [] c = "7" -> 7
      [] c = "8" -> 8 [] c = "9" -> 9

ParseFail == [ok |-> FALSE, v |-> NoneV, i |-> 0]

ParseOk(v, i) == [ok |-> TRUE, v |-> v, i |-> i]

\* s[i:i+1]: the character at i, or "" past the end.
CharAt(s, i) == IF i >= 1 /\ i <= Len(s) THEN s[i] ELSE ""

\* s[i:j+1] with Python's clipping of the slice to the text.
Slice(s, i, j) == SubSeq(s, i, IF j > Len(s) THEN Len(s) ELSE j)

\* WHITESPACE.match(s, i).end()
RECURSIVE SkipWs(_, _)
SkipWs(s, i) ==
    IF CharAt(s, i) \in JsonWhitespace THEN SkipWs(s, i + 1) ELSE i

\* The character a backslash escape stands for, "" when it is no escape.
Unescape(c) ==
    CASE c = "\"" -> "\""
      [] c = "\\" -> "\\"
      [] c = "/" -> "/"
      [] c = "n" -> "\n"
      [] c = "t" -> "\t"
      [] c = "r" -> "\r"
      [] c = "f" -> "\f"
      [] OTHER -> ""

\* py_scanstring(s, i, strict=True): i is the index after the opening quote.
RECURSIVE ScanString(_, _, _)
ScanString(s, i, acc) ==
    LET c == CharAt(s, i) IN
    IF c = "" THEN ParseFail
    ELSE IF c = "\"" THEN ParseOk(acc, i + 1)
    ELSE IF c = "\\"
         THEN IF Unescape(CharAt(s, i + 1)) = "" THEN ParseFail
              ELSE ScanString(s, i + 2, Append(acc, Unescape(CharAt(s, i + 1))))
    ELSE IF c \in {"\n", "\t", "\r", "\f"} THEN ParseFail
    ELSE ScanString(s, i + 1, Append(acc, c))

\* The index after the run of digits that starts at i.
RECURSIVE SkipDigits(_, _)
SkipDigits(s, i) ==
    IF CharAt(s, i) \in Digits THEN SkipDigits(s, i + 1) ELSE i

RECURSIVE DigitsToNat(_, _)
DigitsToNat(ds, acc) ==
    IF ds = <<>> THEN acc
    ELSE DigitsToNat(Tail(ds), 10 * acc + DigitVal(Head(ds)))

\* NUMBER_RE = (-?(?:0|[1-9]\d*))(\.\d+)?([eE][-+]?\d+)? matched at i.
ScanNumber(s, i) ==
    LET d0 == IF CharAt(s, i) = "-" THEN i + 1 ELSE i
        intEnd == IF CharAt(s, d0) = "0" THEN d0 + 1 ELSE SkipDigits(s, d0)
        fracEnd == IF CharAt(s, intEnd) = "." /\ CharAt(s, intEnd + 1) \in Digits
                   THEN SkipDigits(s, intEnd + 1)
                   ELSE intEnd
        e0 == IF CharAt(s, fracEnd + 1) \in {"-", "+"}
              THEN fracEnd + 2
              ELSE fracEnd + 1
        expEnd == IF CharAt(s, fracEnd) \in {"e", "E"} /\ CharAt(s, e0) \in Digits
                  THEN SkipDigits(s, e0)
                  ELSE fracEnd
        mag == DigitsToNat(SubSeq(s, d0, intEnd - 1), 0)
    IN  IF CharAt(s, d0) \notin Digits THEN ParseFail
        ELSE IF expEnd > intEnd
             THEN ParseOk(FloatV(SubSeq(s, i, expEnd - 1)), expEnd)
        ELSE ParseOk(IntV(IF d0 > i THEN 0 - mag ELSE mag), intEnd)

RECURSIVE ScanOnce(_, _)
RECURSIVE JSONObjectLoop(_, _, _)
RECURSIVE JSONArrayLoop(_, _, _)

\* JSONObject: i is the index after "{".
JSONObject(s, i) ==
    LET j == SkipWs(s, i) IN
    IF CharAt(s, j) = "}" THEN ParseOk(DictV(<<>>), j + 1)
    ELSE IF CharAt(s, j) # "\"" THEN ParseFail
    ELSE JSONObjectLoop(s, j + 1, <<>>)

\* One turn of JSONObject's loop: i is the index after a key's opening
\* quote.  dict(pairs): a repeated key keeps its first position and takes
\* the last value.
JSONObjectLoop(s, i, pairs) ==
    LET k == ScanString(s, i, <<>>)
        c == SkipWs(s, k.i)
        val == ScanOnce(s, SkipWs(s, c + 1))
        e == SkipWs(s, val.i)
        q == SkipWs(s, e + 1)
    IN  IF ~k.ok THEN ParseFail
        ELSE IF CharAt(s, c) # ":" THEN ParseFail
        ELSE IF ~val.ok THEN ParseFail
        ELSE IF CharAt(s, e) = "}"
             THEN ParseOk(DictV(DictSet(pairs, k.v, val.v)), e + 1)
        ELSE IF CharAt(s, e) # "," THEN ParseFail
        ELSE IF CharAt(s, q) # "\"" THEN ParseFail
        ELSE JSONObjectLoop(s, q + 1, DictSet(pairs, k.v, val.v))

\* JSONArray: i is the index after "[".
JSONArray(s, i) ==
    LET j == SkipWs(s, i) IN
    IF CharAt(s, j) = "]" THEN ParseOk(ListV(<<>>), j + 1)
    ELSE JSONArrayLoop(s, j, <<>>)

JSONArrayLoop(s, i, values) ==
    LET val == ScanOnce(s, i)
        e == SkipWs(s, val.i)
    IN  IF ~val.ok THEN ParseFail
        ELSE IF CharAt(s, e) = "]"
             THEN ParseOk(ListV(Append(values, val.v)), e + 1)
        ELSE IF CharAt(s, e) # "," THEN ParseFail
        ELSE JSONArrayLoop(s, SkipWs(s, e + 1), Append(values, val.v))

\* scanner._scan_once
ScanOnce(s, i) ==
    LET c == CharAt(s, i) IN
    IF c = "" THEN ParseFail
    ELSE IF c = "\"" THEN
        LET r == ScanString(s, i + 1, <<>>) IN
        IF r.ok THEN ParseOk(StrV(r.v), r.i) ELSE ParseFail
    ELSE IF c = "{" THEN JSONObject(s, i + 1)
    ELSE IF c = "[" THEN JSONArray(s, i + 1)
    ELSE IF c = "n" /\ Slice(s, i, i + 3) = <<"n", "u", "l", "l">>
         THEN ParseOk(NoneV, i + 4)
    ELSE IF c = "t" /\ Slice(s, i, i + 3) = <<"t", "r", "u", "e">>
         THEN ParseOk(BoolV(TRUE), i + 4)
    ELSE IF c = "f" /\ Slice(s, i, i + 4) = <<"f", "a", "l", "s", "e">>
         THEN ParseOk(BoolV(FALSE), i + 5)
    ELSE ScanNumber(s, i)

\* json.loads(s): [ok, v]; ok = FALSE stands for JSONDecodeError.
JsonLoads(s) ==
    LET r == ScanOnce(s, SkipWs(s, 1)) IN
    IF r.ok /\ SkipWs(s, r.i) = Len(s) + 1
    THEN [ok |-> TRUE, v |-> r.v]
    ELSE [ok |-> FALSE, v |-> NoneV]

(***************************************************************************)
(* schema.py: _clean_data and validate_json_structure.                     *)
(***************************************************************************)
RECURSIVE CleanData(_)
RECURSIVE CleanItems(_, _)

\* A plausible slip: every element passes through.
CleanListItemSkipped(item) == item

\* The element of the list comprehension at schema.py:144-147.
CleanListItem(item) == IF IsDict(item) THEN CleanData(item) ELSE item

\* A plausible slip: the key is stored as it came.
CleanKeyUnstripped(key) == key

\* clean_key = key.strip()
CleanKey(key) == Strip(key)

\* A plausible slip: the string is stored as it came.
CleanStringUnstripped(value) == value

\* value.strip() if value else value
CleanString(value) == IF value.s # <<>> THEN StrV(Strip(value.s)) ELSE value

\* The if/elif chain of _clean_data's loop body: what is stored under the
\* cleaned key.
CleanValue(value) ==
    IF IsDict(value) THEN CleanData(value)
    ELSE IF IsList(value)
         THEN ListV([i \in 1..Len(value.elems) |-> CleanListItem(value.elems[i])])
    ELSE IF IsStr(value) THEN CleanString(value)
    ELSE value

\* The loop of _clean_data over data.items(), cleaned being the dict built
\* so far.
CleanItems(items, cleaned) ==
    IF items = <<>> THEN cleaned
    ELSE CleanItems(Tail(items),
                    DictSet(cleaned, CleanKey(Head(items)[1]),
                            CleanValue(Head(items)[2])))

CleanData(data) ==
    IF ~IsDict(data) THEN data ELSE DictV(CleanItems(data.items, <<>>))

\* Messages are kept as their words; the text of the decoder's exception,
\* which the first message ends with, is left out.
ParseErrorMsg == <<"Failed", "to", "parse", "JSON:">>

TypeErrorMsg(v) == <<"Expected", "dictionary,", "got", TypeName(v)>>

EmptyErrorMsg == <<"Extracted", "data", "is", "empty">>

FewSectionsMsg ==
    <<"Data", "has", "very", "few", "sections.", "Extraction", "might",
      "be", "incomplete.">>

\* ValidationResult(...): data defaults to None.
ValidationResult(is_valid, data, errors, warnings) ==
    [is_valid |-> is_valid, data |-> data, errors |-> errors,
     warnings |-> warnings]

\* line.strip().startswith(<fence>)
IsFenceLine(line) == StartsWith(Strip(line), Fence)

\* schema.py:74-78, as a Python index into lines: one past the first fence
\* line, 0 when no line is a fence line.
StartIdx(lines) ==
    IF \E i \in 1..Len(lines) : IsFenceLine(lines[i])
    THEN CHOOSE i \in 1..Len(lines) :
            /\ IsFenceLine(lines[i])
            /\ \A j \in 1..(i - 1) : ~IsFenceLine(lines[j])
    ELSE 0

\* The Python indices range(len(lines) - 1, start_idx, -1) visits.
EndScanRange(lines, start_idx) == (start_idx + 1)..(Len(lines) - 1)

\* schema.py:80-84, as a Python index into lines: the last fence line the
\* scan visits, len(lines) when it visits none.
EndIdx(lines, start_idx) ==
    LET hits == {i \in EndScanRange(lines, start_idx) : IsFenceLine(lines[i + 1])}
    IN  IF hits = {} THEN Len(lines)
        ELSE CHOOSE i \in hits : \A j \in hits : j <= i

\* json_str = "\n".join(lines[start_idx:end_idx]) for the stripped text.
FenceInterior(stripped) ==
    LET lines == SplitLines(stripped)
        start_idx == StartIdx(lines)
        end_idx == EndIdx(lines, start_idx)
    IN  JoinLines(SubSeq(lines, start_idx + 1, end_idx))

\* A plausible slip: the failure for an empty mapping hands the mapping on.
ValidateValueKeepingData(data) ==
    IF ~IsDict(data)
    THEN ValidationResult(FALSE, NoneV, <<TypeErrorMsg(data)>>, <<>>)
    ELSE IF data.items = <<>>
    THEN ValidationResult(FALSE, data, <<EmptyErrorMsg>>, <<>>)
    ELSE ValidationResult(TRUE, CleanData(data), <<>>,
                          IF Len(CleanData(data).items) < 2
                          THEN <<FewSectionsMsg>> ELSE <<>>)

\* schema.py:96-118: the checks on the parsed (or directly supplied) value.
ValidateValue(data) ==
    IF ~IsDict(data)
    THEN ValidationResult(FALSE, NoneV, <<TypeErrorMsg(data)>>, <<>>)
    ELSE IF data.items = <<>>
    THEN ValidationResult(FALSE, NoneV, <<EmptyErrorMsg>>, <<>>)
    ELSE LET cleaned_data == CleanData(data) IN
         ValidationResult(TRUE, cleaned_data, <<>>,
                          IF Len(cleaned_data.items) < 2
                          THEN <<FewSectionsMsg>> ELSE <<>>)

\* schema.py:64-94: the value the checks run on, or the parse failure.
\* [ok, v, recovered, json_str]: recovered tells that the fence branch was
\* taken and json_str is the text it re-parsed.
LoadInput(data) ==
    IF ~IsStr(data)
    THEN [ok |-> TRUE, v |-> data, recovered |-> FALSE, json_str |-> <<>>]
    ELSE LET first == JsonLoads(data.s)
             stripped == Strip(data.s)
             json_str == FenceInterior(stripped)
             second == JsonLoads(json_str)
         IN  IF first.ok
             THEN [ok |-> TRUE, v |-> first.v, recovered |-> FALSE,
                   json_str |-> <<>>]
             ELSE IF StartsWith(stripped, Fence)
             THEN [ok |-> second.ok, v |-> second.v, recovered |-> TRUE,
                   json_str |-> json_str]
             ELSE [ok |-> FALSE, v |-> NoneV, recovered |-> FALSE,
                   json_str |-> <<>>]

\* A plausible slip: no return after the parse failure, so the type check
\* runs on the text as well.
ValidateWithoutReturn(data) ==
    LET loaded == LoadInput(data) IN
    IF ~loaded.ok
    THEN ValidationResult(FALSE, NoneV,
                          <<ParseErrorMsg, TypeErrorMsg(data)>>, <<>>)
    ELSE ValidateValue(loaded.v)

validate_json_structure(data) ==
    LET loaded == LoadInput(data) IN
    IF ~loaded.ok
    THEN ValidationResult(FALSE, NoneV, <<ParseErrorMsg>>, <<>>)
    ELSE ValidateValue(loaded.v)

(***************************************************************************)
(* schema.py again, with the objects it is handed and the objects it       *)
(* builds kept apart.  The heap is the sequence of the mutable containers  *)
(* (dicts and lists); what a variable, a dict entry or a list element      *)
(* holds is a slot: an immutable value (None, a number, a string) or a     *)
(* reference [t |-> "ref", addr |-> a] to heap[a].  Returning, storing and *)
(* iterating copy slots, never containers; only cleaned = {}, the list     *)
(* comprehension and cleaned[clean_key] = ... touch the heap.              *)
(***************************************************************************)
RefV(a) == [t |-> "ref", addr |-> a]

IsRef(x) == x.t = "ref"

\* isinstance(x, dict) and isinstance(x, list) for a slot
IsDictSlot(heap, x) == IsRef(x) /\ heap[x.addr].t = "dict"

IsListSlot(heap, x) == IsRef(x) /\ heap[x.addr].t = "list"

\* The value a slot stands for.
RECURSIVE Deref(_, _)
Deref(heap, x) ==
    IF ~IsRef(x) THEN x
    ELSE LET cell == heap[x.addr] IN
         IF cell.t = "list"
         THEN ListV([i \in 1..Len(cell.elems) |-> Deref(heap, cell.elems[i])])
         ELSE DictV([i \in 1..Len(cell.items) |->
                        <<cell.items[i][1], Deref(heap, cell.items[i][2])>>])

\* A new container: [heap, slot], the slot referring to it.
Alloc(heap, cell) ==
    [heap |-> Append(heap, cell), slot |-> RefV(Len(heap) + 1)]

\* d[key] = x for the dict at addr
SetItem(heap, addr, key, x) ==
    [heap EXCEPT ![addr] = DictV(DictSet(@.items, key, x))]

RECURSIVE CleanDataInHeap(_, _)
RECURSIVE CleanItemsInHeap(_, _, _)
RECURSIVE CleanElemsInHeap(_, _, _)

\* schema.py:144-147, element by element: [heap, slots], slots being the
\* elements of the list under construction.
CleanElemsInHeap(heap, elems, slots) ==
    IF elems = <<>> THEN [heap |-> heap, slots |-> slots]
    ELSE LET r == IF IsDictSlot(heap, Head(elems))
                  THEN CleanDataInHeap(heap, Head(elems))
                  ELSE [heap |-> heap, slot |-> Head(elems)]
         IN  CleanElemsInHeap(r.heap, Tail(elems), Append(slots, r.slot))

\* A plausible slip: the list is cleaned in place and handed back.
CleanListInPlace(heap, value) ==
    LET r == CleanElemsInHeap(heap, heap[value.addr].elems, <<>>)
    IN  [heap |-> [r.heap EXCEPT ![value.addr] = ListV(r.slots)],
         slot |-> value]

\* schema.py:144-147: the list comprehension builds a new list.
CleanListInHeap(heap, value) ==
    LET r == CleanElemsInHeap(heap, heap[value.addr].elems, <<>>)
    IN  Alloc(r.heap, ListV(r.slots))

\* schema.py:141-152: what is stored under the cleaned key.
CleanValueInHeap(heap, value) ==
    IF IsDictSlot(heap, value) THEN CleanDataInHeap(heap, value)
    ELSE IF IsListSlot(heap, value) THEN CleanListInHeap(heap, value)
    ELSE IF IsStr(value) THEN [heap |-> heap, slot |-> CleanString(value)]
    ELSE [heap |-> heap, slot |-> value]

\* schema.py:136-152: the loop over the entries that remain, cleaned being
\* the address of the dict it fills.
CleanItemsInHeap(heap, items, cleaned) ==
    IF items = <<>> THEN heap
    ELSE LET r == CleanValueInHeap(heap, Head(items)[2])
         IN  CleanItemsInHeap(
                 SetItem(r.heap, cleaned, CleanKey(Head(items)[1]), r.slot),
                 Tail(items), cleaned)

\* _clean_data(data): [heap, slot]
CleanDataInHeap(heap, data) ==
    IF ~IsDictSlot(heap, data) THEN [heap |-> heap, slot |-> data]
    ELSE LET cleaned == Alloc(heap, DictV(<<>>))
         IN  [heap |-> CleanItemsInHeap(cleaned.heap, heap[data.addr].items,
                                        cleaned.slot.addr),
              slot |-> cleaned.slot]

\* validate_json_structure(data) for a structured argument: [heap, result],
\* result.data being a slot.
ValidateInHeap(heap, data) ==
    IF ~IsDictSlot(heap, data)
    THEN [heap |-> heap,
          result |-> ValidationResult(FALSE, NoneV,
                                      <<TypeErrorMsg(Deref(heap, data))>>, <<>>)]
    ELSE IF heap[data.addr].items = <<>>
    THEN [heap |-> heap,
          result |-> ValidationResult(FALSE, NoneV, <<EmptyErrorMsg>>, <<>>)]
    ELSE LET r == CleanDataInHeap(heap, data) IN
         [heap |-> r.heap,
          result |-> ValidationResult(TRUE, r.slot, <<>>,
                        IF Len(r.heap[r.slot.addr].items) < 2
                        THEN <<FewSectionsMsg>> ELSE <<>>)]

(***************************************************************************)
(* str() and repr() of the values above, as excel_writer.py applies them   *)
(* (str(item), str(v), f"{k}: {v}").  A float prints as its literal, which *)
(* is exact only for a literal already in repr form.                       *)
(***************************************************************************)
DigitChar(d) ==
    CASE d = 0 -> "0" [] d = 1 -> "1" [] d = 2 -> "2" [] d = 3 -> "3"
      [] d = 4 -> "4" [] d = 5 -> "5" [] d = 6 -> "6" [] d = 7 -> "7"
      [] d = 8 -> "8" [] d = 9 -> "9"

RECURSIVE NatToText(_)
NatToText(n) ==
    IF n < 10 THEN <<DigitChar(n)>>
    ELSE Append(NatToText(n \div 10), DigitChar(n % 10))

IntToText(n) == IF n < 0 THEN <<"-">> \o NatToText(0 - n) ELSE NatToText(n)

Chars(s) == {s[i] : i \in 1..Len(s)}

\* repr() of one character of a string quoted with q.
ReprChar(c, q) ==
    CASE c = "\\" -> <<"\\", "\\">>
      [] c = q -> <<"\\", q>>
      [] c = "\n" -> <<"\\", "n">>
      [] c = "\t" -> <<"\\", "t">>
      [] c = "\r" -> <<"\\", "r">>
      [] c = "\f" -> <<"\\", "x", "0", "c">>
      [] OTHER -> <<c>>

RECURSIVE ReprChars(_, _)
ReprChars(s, q) ==
    IF s = <<>> THEN <<>> ELSE ReprChar(Head(s), q) \o ReprChars(Tail(s), q)

\* repr() of a string: double quotes only when it holds ' and no ".
ReprText(s) ==
    LET q == IF "'" \in Chars(s) /\ "\"" \notin Chars(s) THEN "\"" ELSE "'"
    IN  <<q>> \o ReprChars(s, q) \o <<q>>

RECURSIVE PyStr(_)
RECURSIVE PyRepr(_)

PyStr(v) ==
    CASE v.t = "NoneType" -> <<"N", "o", "n", "e">>
      [] v.t = "bool" -> IF v.b THEN <<"T", "r", "u", "e">>
                         ELSE <<"F", "a", "l", "s", "e">>
      [] v.t = "int" -> IntToText(v.n)
      [] v.t = "float" -> v.lit
      [] v.t = "str" -> v.s
      [] v.t = "list" ->
            <<"[">> \o Join(<<",", " ">>,
                            [i \in 1..Len(v.elems) |-> PyRepr(v.elems[i])])
                    \o <<"]">>
      [] v.t = "dict" ->
            <<"{">> \o Join(<<",", " ">>,
                            [i \in 1..Len(v.items) |->
                                ReprText(v.items[i][1]) \o <<":", " ">>
                                    \o PyRepr(v.items[i][2])])
                    \o <<"}">>

PyRepr(v) == IF IsStr(v) THEN ReprText(v.s) ELSE PyStr(v)

(***************************************************************************)
(* excel_writer.py: ExcelWriter.                                           *)
(***************************************************************************)
COMMENTS == <<"c", "o", "m", "m", "e", "n", "t", "s">>

TEXT == <<"t", "e", "x", "t">>

EmptyStr == StrV(<<>>)

\* A plausible slip: the comparison without lower().
IsCommentsKeyExact(key) == key = COMMENTS

\* key.lower() == "comments"
IsCommentsKey(key) == Lower(key) = COMMENTS

\* {k: v for k, v in value.items() if k.lower() != "comments"}
RECURSIVE FilterNotCommentsLower(_)
FilterNotCommentsLower(items) ==
    IF items = <<>> THEN <<>>
    ELSE IF ~IsCommentsKey(Head(items)[1])
         THEN <<Head(items)>> \o FilterNotCommentsLower(Tail(items))
         ELSE FilterNotCommentsLower(Tail(items))

\* {k: v for k, v in value.items() if k != "comments"}
RECURSIVE FilterNotComments(_)
FilterNotComments(items) ==
    IF items = <<>> THEN <<>>
    ELSE IF Head(items)[1] # COMMENTS
         THEN <<Head(items)>> \o FilterNotComments(Tail(items))
         ELSE FilterNotComments(Tail(items))

\* A plausible slip: the mapping branch filters with k != "comments".
FormatValueExactFilter(value) ==
    IF IsList(value)
    THEN Join(<<",", " ">>, [i \in 1..Len(value.elems) |-> PyStr(value.elems[i])])
    ELSE IF IsDict(value)
    THEN LET filtered == FilterNotComments(value.items) IN
         IF filtered = <<>> THEN <<>>
         ELSE Join(<<";", " ">>,
                   [i \in 1..Len(filtered) |->
                       filtered[i][1] \o <<":", " ">> \o PyStr(filtered[i][2])])
    ELSE IF value = NoneV THEN <<>> ELSE PyStr(value)

\* ExcelWriter._format_value
_format_value(value) ==
    IF IsList(value)
    THEN Join(<<",", " ">>, [i \in 1..Len(value.elems) |-> PyStr(value.elems[i])])
    ELSE IF IsDict(value)
    THEN LET filtered == FilterNotCommentsLower(value.items) IN
         IF filtered = <<>> THEN <<>>
         ELSE Join(<<";", " ">>,
                   [i \in 1..Len(filtered) |->
                       filtered[i][1] \o <<":", " ">> \o PyStr(filtered[i][2])])
    ELSE IF value = NoneV THEN <<>> ELSE PyStr(value)

Row(key, value, comments) ==
    [key |-> key, value |-> value, comments |-> comments]

\* A plausible slip: the nested "text" entry is not looked at, and the
\* remainder of the nested mapping is always what is shown.
MappingRowIgnoringText(key, value) ==
    LET nested == IsDict(value) /\ HasKey(value.items, COMMENTS)
        comment == IF nested THEN DictGet(value.items, COMMENTS, EmptyStr)
                   ELSE EmptyStr
        shown == IF ~nested THEN value
                 ELSE DictV(FilterNotComments(value.items))
    IN  Row(key, _format_value(shown), comment)

\* excel_writer.py:103-120: the row of one retained key of a mapping section.
MappingRow(key, value) ==
    LET nested == IsDict(value) /\ HasKey(value.items, COMMENTS)
        comment == IF nested THEN DictGet(value.items, COMMENTS, EmptyStr)
                   ELSE EmptyStr
        shown == IF ~nested THEN value
                 ELSE IF HasKey(value.items, TEXT)
                      THEN DictGet(value.items, TEXT, EmptyStr)
                      ELSE DictV(FilterNotComments(value.items))
    IN  Row(key, _format_value(shown), comment)

\* excel_writer.py:99-120: the rows of a mapping section.
RECURSIVE MappingRows(_)
MappingRows(items) ==
    IF items = <<>> THEN <<>>
    ELSE IF IsCommentsKey(Head(items)[1]) THEN MappingRows(Tail(items))
    ELSE <<MappingRow(Head(items)[1], Head(items)[2])>>
            \o MappingRows(Tail(items))

\* excel_writer.py:131-143: the rows of a mapping item of a sequence
\* section, first_key being the flag the loop carries.
RECURSIVE ItemRows(_, _, _)
ItemRows(items, item_comment, first_key) ==
    IF items = <<>> THEN <<>>
    ELSE IF IsCommentsKey(Head(items)[1])
         THEN ItemRows(Tail(items), item_comment, first_key)
    ELSE <<Row(Head(items)[1], _format_value(Head(items)[2]),
               IF first_key THEN item_comment ELSE EmptyStr)>>
            \o ItemRows(Tail(items), item_comment, FALSE)

\* A plausible slip: the loop over a mapping item starts with first_key
\* already False, so the item's comment reaches no row.
ListItemRowsFirstKeyFalse(idx, item) ==
    IF IsDict(item)
    THEN ItemRows(item.items, DictGet(item.items, COMMENTS, EmptyStr), FALSE)
    ELSE <<Row(<<"i", "t", "e", "m", "_">> \o IntToText(idx + 1),
               PyStr(item), EmptyStr)>>

\* excel_writer.py:124-150: the rows of the item at Python index idx.
ListItemRows(idx, item) ==
    IF IsDict(item)
    THEN ItemRows(item.items, DictGet(item.items, COMMENTS, EmptyStr), TRUE)
    ELSE <<Row(<<"i", "t", "e", "m", "_">> \o IntToText(idx + 1),
               PyStr(item), EmptyStr)>>

RECURSIVE ListRows(_, _)
ListRows(elems, idx) ==
    IF idx >= Len(elems) THEN <<>>
    ELSE ListItemRows(idx, elems[idx + 1]) \o ListRows(elems, idx + 1)

\* ExcelWriter._flatten_section
_flatten_section(section_name, section_data) ==
    IF IsDict(section_data) THEN MappingRows(section_data.items)
    ELSE IF IsList(section_data) THEN ListRows(section_data.elems, 0)
    ELSE <<Row(section_name, PyStr(section_data), EmptyStr)>>

\* The loop both json_to_dataframe and json_to_excel run over data.items():
\* the value of the local rows / flattened_rows in each turn.
SectionRows(data) ==
    [i \in 1..Len(data.items) |->
        _flatten_section(data.items[i][1], data.items[i][2])]

\* One row of the data frame: the columns "#", "Key", "Value", "Comments".
DfRow(row_number, row_data) ==
    [Key |-> row_data.key, Value |-> row_data.value,
     Comments |-> row_data.comments] @@ ("#" :> row_number)

\* excel_writer.py:220-227: the inner loop over one section's rows, from
\* the counter value row_number.
RECURSIVE FrameRows(_, _)
FrameRows(flattened_rows, row_number) ==
    IF flattened_rows = <<>> THEN <<>>
    ELSE <<DfRow(row_number, Head(flattened_rows))>>
            \o FrameRows(Tail(flattened_rows), row_number + 1)

\* excel_writer.py:217-227: the outer loop over the sections that remain,
\* rows and row_number being the locals it carries.
RECURSIVE FrameSections(_, _, _)
FrameSections(sections, rows, row_number) ==
    IF sections = <<>> THEN rows
    ELSE FrameSections(Tail(sections),
                       rows \o FrameRows(Head(sections), row_number),
                       row_number + Len(Head(sections)))

\* A plausible slip: the counter is set to 1 inside the loop over sections.
RECURSIVE FrameEachFromOne(_)
FrameEachFromOne(sections) ==
    IF sections = <<>> THEN <<>>
    ELSE FrameRows(Head(sections), 1) \o FrameEachFromOne(Tail(sections))

JsonToDataFrameRestarting(data) == FrameEachFromOne(SectionRows(data))

\* ExcelWriter.json_to_dataframe: the rows the DataFrame is built from.
json_to_dataframe(data) == FrameSections(SectionRows(data), <<>>, 1)

\* What openpyxl stores in a cell: numbers, booleans, None and strings free
\* of illegal control characters; for a list or a dict, or a string holding
\* one (of the model's characters, the form feed) ws.append raises.
CellAccepts(v) ==
    /\ v.t \notin {"list", "dict"}
    /\ IsStr(v) => "\f" \notin Chars(v.s)

RowAccepted(row_data) ==
    /\ CellAccepts(StrV(row_data.key))
    /\ CellAccepts(StrV(row_data.value))
    /\ CellAccepts(row_data.comments)

\* excel_writer.py:59-68: the inner loop over one section's rows.  ws is
\* [raised, rows]: the data rows appended so far, each [row_number, key,
\* value, comments], and whether ws.append has raised.
RECURSIVE WriteRows(_, _, _)
WriteRows(rows, ws, row_number) ==
    IF rows = <<>> \/ ws.raised THEN ws
    ELSE IF ~RowAccepted(Head(rows)) THEN [ws EXCEPT !.raised = TRUE]
    ELSE WriteRows(Tail(rows),
                   [ws EXCEPT !.rows =
                       Append(@, <<row_number, Head(rows).key,
                                   Head(rows).value, Head(rows).comments>>)],
                   row_number + 1)

\* excel_writer.py:56-68: the outer loop over the sections that remain.
RECURSIVE WriteSections(_, _, _)
WriteSections(sections, ws, row_number) ==
    IF sections = <<>> \/ ws.raised THEN ws
    ELSE WriteSections(Tail(sections),
                       WriteRows(Head(sections), ws, row_number),
                       row_number + Len(Head(sections)))

\* ExcelWriter.json_to_excel: the worksheet (title, header row, data rows)
\* saved into the returned buffer; raised = TRUE when a write raises, and
\* then nothing is returned.
json_to_excel(data) ==
    LET ws == WriteSections(SectionRows(data),
                            [raised |-> FALSE, rows |-> <<>>], 1)
    IN  [raised |-> ws.raised, title |-> "Extracted Data",
         header |-> <<"#", "Key", "Value", "Comments">>, rows |-> ws.rows]

(***************************************************************************)
(* pdf_loader.py: PDFLoader.                                               *)
(***************************************************************************)
\* The characters of s at the indices in keep, in order.
KeepAt(s, keep) ==
    [k \in 1..Cardinality(keep) |->
        s[CHOOSE i \in keep : Cardinality({j \in keep : j <= i}) = k]]

\* re.sub(r' +', ' ', text): every run of spaces becomes one space, so a
\* space stays exactly when no space stands before it.
SubSpaceRuns(text) ==
    KeepAt(text, {i \in 1..Len(text) :
                    ~(text[i] = " " /\ i > 1 /\ text[i - 1] = " ")})

\* re.sub(r'\n{3,}', '\n\n', text): every run of three or more newlines
\* becomes two, so a newline goes exactly when two newlines stand before it.
SubNewlineRuns(text) ==
    KeepAt(text, {i \in 1..Len(text) :
                    ~(text[i] = "\n" /\ i > 2 /\ text[i - 1] = "\n"
                        /\ text[i - 2] = "\n")})

\* [line.strip() for line in text.split('\n')], joined by '\n'
StripLines(text) ==
    LET lines == SplitLines(text)
    IN  JoinLines([k \in 1..Len(lines) |-> Strip(lines[k])])

\* re.sub(r'  +', ' ', text): every run of two or more spaces becomes one
\* space; a run of one stays as it is.
SubDoubleSpaces(text) ==
    KeepAt(text, {i \in 1..Len(text) :
                    ~(text[i] = " " /\ i > 1 /\ text[i - 1] = " ")})

\* PDFLoader._clean_text
_clean_text(text) ==
    Strip(SubDoubleSpaces(StripLines(SubNewlineRuns(SubSpaceRuns(text)))))

\* self.max_pages
max_pages == 2

\* What pdfplumber makes of pdf_bytes: [opens, pages].  opens = FALSE when
\* pdfplumber.open raises (bytes that are no PDF, the empty bytes among
\* them); pages holds for each page what page.extract_text() does: it
\* returns a text, returns None, or raises.
TextPage(text) == [kind |-> "text", text |-> text]

NonePage == [kind |-> "none"]

RaisingPage == [kind |-> "raises"]

Unreadable == [opens |-> FALSE, pages |-> <<>>]

Document(pages) == [opens |-> TRUE, pages |-> pages]

\* A call that returned v, and a call that raised the exception exc.
Returned(v) == [raised |-> FALSE, value |-> v]

Raised(exc) == [raised |-> TRUE, exc |-> exc]

\* bool(page_text): the text is neither None nor empty.
Truthy(page) == page.kind = "text" /\ page.text # <<>>

\* pdf_loader.py:67-72: text_parts after the loop over the first
\* pages_to_process pages, none of which raised.
RECURSIVE TextParts(_, _)
TextParts(pages, pages_to_process) ==
    IF pages_to_process = 0 THEN <<>>
    ELSE LET page == pages[pages_to_process]
             before == TextParts(pages, pages_to_process - 1)
         IN  IF Truthy(page) THEN Append(before, page.text) ELSE before

\* PDFLoader._extract_text
_extract_text(pdf) ==
    IF Len(pdf.pages) = 0 THEN Raised(<<"PDF", "has", "no", "pages">>)
    ELSE LET pages_to_process ==
                 IF Len(pdf.pages) < max_pages THEN Len(pdf.pages) ELSE max_pages
         IN  IF \E i \in 1..pages_to_process : pdf.pages[i].kind = "raises"
             THEN Raised(<<"extract_text">>)
             ELSE LET full_text == Join(<<"\n", "\n">>,
                                        TextParts(pdf.pages, pages_to_process))
                      cleaned_text == _clean_text(full_text)
                  IN  IF Strip(cleaned_text) = <<>>
                      THEN Raised(<<"No", "text", "could", "be", "extracted",
                                    "from", "PDF">>)
                      ELSE Returned(cleaned_text)

\* PDFLoader.load_from_bytes: whatever is raised inside is raised again as
\* "Failed to load PDF: ...".
load_from_bytes(pdf_bytes) ==
    LET inner == IF ~pdf_bytes.opens THEN Raised(<<"open">>)
                 ELSE _extract_text(pdf_bytes)
    IN  IF inner.raised
        THEN Raised(<<"Failed", "to", "load", "PDF:">> \o inner.exc)
        ELSE inner

\* pdf_loader.py:120-132: the body of the try block of validate_pdf; the
\* value returned is the tuple (is_valid, error_message).
ValidateTry(pdf_bytes) ==
    IF ~pdf_bytes.opens THEN Raised(<<"open">>)
    ELSE LET pages == pdf_bytes.pages IN
         IF Len(pages) = 0
         THEN Returned(<<FALSE, <<"PDF", "has", "no", "pages">>>>)
         ELSE IF Len(pages) > max_pages
         THEN Returned(<<FALSE, <<"PDF", "has">> \o <<IntToText(Len(pages))>>
                                 \o <<"pages.", "Maximum", "allowed", "is">>
                                 \o <<IntToText(max_pages)>>>>)
         ELSE IF pages[1].kind = "raises" THEN Raised(<<"extract_text">>)
         ELSE IF ~Truthy(pages[1]) \/ Strip(pages[1].text) = <<>>
         THEN Returned(<<FALSE, <<"PDF", "appears", "to", "be", "empty", "or",
                                  "contains", "only", "images">>>>)
         ELSE Returned(<<TRUE, NoneV>>)

\* A plausible slip: the first page is not looked at.
ValidatePdfByPageCount(pdf_bytes) ==
    IF ~pdf_bytes.opens
    THEN Returned(<<FALSE, <<"PDF", "validation", "failed:", "open">>>>)
    ELSE IF Len(pdf_bytes.pages) = 0
    THEN Returned(<<FALSE, <<"PDF", "has", "no", "pages">>>>)
    ELSE IF Len(pdf_bytes.pages) > max_pages
    THEN Returned(<<FALSE, <<"PDF", "has", "too", "many", "pages">>>>)
    ELSE Returned(<<TRUE, NoneV>>)

\* PDFLoader.validate_pdf: what the try block raises is caught and returned
\* as (False, "PDF validation failed: ...").
validate_pdf(pdf_bytes) ==
    LET inner == ValidateTry(pdf_bytes)
    IN  IF inner.raised
        THEN Returned(<<FALSE, <<"PDF", "validation", "failed:">> \o inner.exc>>)
        ELSE inner

(***************************************************************************)
(* The inputs the model draws from.                                        *)
(***************************************************************************)
\* Lines of a model response: at most MaxLines of them make a text.
MaxLines == 3

\* Top-level sections of a directly supplied payload.
MaxSections == 2

\* Entries of a nested mapping, and items of a sequence section.
MaxItems == 2

SeqsUpTo(S, n) == UNION {[1..m -> S] : m \in 0..n}

DistinctSeqsUpTo(S, n) ==
    {q \in SeqsUpTo(S, n) : \A i, j \in 1..Len(q) : i # j => q[i] # q[j]}

Q == "\""

LineSet ==
    { <<>>,
      Fence,
      Fence \o <<"j", "s", "o", "n">>,
      <<" ">> \o Fence,
      <<"x">>,
      <<"{", "}">>,
      <<"[", "1", "]">>,
      <<"{", Q, "a", Q, ":", "1", "}">>,
      <<"{", Q, " ", "a", Q, ":", Q, " ", "x", Q, ",", Q, "a", Q, ":",
        "[", Q, "y", " ", Q, "]", "}">>,
      <<"{", Q, "a", Q, ":", "n", "u", "l", "l", ",", Q, "b", " ", Q, ":",
        "{", Q, " ", "k", Q, ":", Q, "v", " ", Q, "}", "}">>,
      <<"{", Q, "a", Q, ":">>,
      <<"1", "}">> }

\* The texts: 1..MaxLines lines joined by newlines.
Texts == {JoinLines(ls) : ls \in SeqsUpTo(LineSet, MaxLines) \ {<<>>}}

Scalars == {NoneV, IntV(1), StrV(<<>>), StrV(<<" ", "x", " ">>)}

\* The keys of nested mappings, each with the value it carries.
NestedKeys ==
    { COMMENTS, <<"C">> \o Tail(COMMENTS), TEXT, <<"k">>, <<" ", "k">>, <<"n">> }

NestedValue(k) ==
    CASE k = COMMENTS -> StrV(<<"c">>)
      [] k = <<"C">> \o Tail(COMMENTS) -> StrV(<<"C">>)
      [] k = TEXT -> StrV(<<"t", " ">>)
      [] k = <<"n">> -> NoneV
      [] OTHER -> StrV(<<" ", "v">>)

\* Mappings of at most MaxItems entries over NestedKeys, in every order.
NestedDicts ==
    {DictV([i \in 1..Len(q) |-> <<q[i], NestedValue(q[i])>>]) :
        q \in DistinctSeqsUpTo(NestedKeys, MaxItems)}

\* The elements sequences are made of: scalars, a few mappings, a sequence
\* holding a mapping.
ListElems ==
    { NoneV, StrV(<<" ", "x", " ">>),
      DictV(<< <<COMMENTS, StrV(<<"c">>)>>, <<<<" ", "k">>, StrV(<<" ", "v">>)>> >>),
      DictV(<< <<COMMENTS, StrV(<<"c">>)>>, <<<<"k">>, NoneV>>,
               <<<<"j">>, StrV(<<"v">>)>> >>),
      DictV(<< <<<<"k">>, IntV(1)>>, <<COMMENTS, ListV(<<StrV(<<"c">>)>>)>>,
               <<<<"j">>, ListV(<<StrV(<<"y", " ">>)>>)>> >>),
      ListV(<<DictV(<< <<<<" ", "k">>, StrV(<<" ", "v">>)>> >>)>>) }

Lists ==
    {ListV(q) : q \in SeqsUpTo(ListElems, MaxItems)}
        \cup {ListV(<<d>>) : d \in NestedDicts}

\* A mapping section: an entry "k" whose value is a scalar, a nested mapping
\* or a sequence, alone or beside one more entry.
SideEntries ==
    { <<COMMENTS, StrV(<<"z">>)>>,
      <<<<"C">> \o Tail(COMMENTS), ListV(<<IntV(1)>>)>>,
      <<<<"k", " ">>, StrV(<<" ", "x", " ">>)>>,
      <<<<"j">>, NoneV>> }

\* Nested mappings that carry "text" and "comments" beside other entries.
TextDicts ==
    { DictV(<< <<<<"k">>, StrV(<<"v">>)>>, <<TEXT, StrV(<<"t">>)>>,
               <<COMMENTS, StrV(<<"c">>)>> >>),
      DictV(<< <<COMMENTS, NoneV>>, <<TEXT, ListV(<<IntV(1), StrV(<<"t">>)>>)>>,
               <<<<"C">> \o Tail(COMMENTS), StrV(<<"C">>)>> >>),
      DictV(<< <<COMMENTS, IntV(1)>>, <<TEXT, NoneV>> >>) }

MappingSections ==
    LET main == {<< <<"k">>, v >> :
                    v \in Scalars \cup NestedDicts \cup TextDicts \cup Lists}
    IN  {DictV(<<m>>) : m \in main}
            \cup {DictV(<<e, m>>) : e \in SideEntries, m \in main}
            \cup {DictV(<<m, e>>) : e \in SideEntries, m \in main}

\* One-section payloads with a section of every shape.
DeepPayloads ==
    {DictV(<< <<<<"s", " ">>, v>> >>) : v \in MappingSections \cup Lists}

\* Payloads of up to MaxSections sections of simple shapes.
SectionNames == { <<"a">>, <<" ", "a">>, <<"b">> }

SimpleSections ==
    { NoneV, IntV(1), StrV(<<" ", "x", " ">>), DictV(<<>>), ListV(<<>>),
      DictV(<< <<COMMENTS, StrV(<<"z">>)>> >>),
      DictV(<< <<<<"k">>, StrV(<<"v">>)>>, <<<<"j">>, IntV(1)>> >>),
      ListV(<<DictV(<< <<<<"k">>, StrV(<<"v">>)>>, <<COMMENTS, StrV(<<"c">>)>> >>),
              BoolV(TRUE)>>) }

WidePayloads ==
    {DictV([i \in 1..Len(names) |-> <<names[i], vals[i]>>]) :
        <<names, vals>> \in
            {<<n, v>> \in DistinctSeqsUpTo(SectionNames, MaxSections)
                            \X SeqsUpTo(SimpleSections, MaxSections) :
                Len(n) = Len(v)}}

\* Values that are no mapping, handed in directly.
NonMappings == Scalars \cup {BoolV(FALSE), ListV(<<>>), ListV(<<DictV(<<>>)>>)}

Inputs ==
    {StrV(t) : t \in Texts} \cup DeepPayloads \cup WidePayloads \cup NonMappings

(***************************************************************************)
(* The pipeline as a state machine: an input is validated, and a payload   *)
(* (the validated data, or a mapping handed to the writer directly, as the *)
(* tests do) is flattened into a data frame or a worksheet.                *)
(***************************************************************************)
VARIABLES
    input,      \* the argument of validate_json_structure
    pc,         \* "start", "validated", "framed", "written", "called"
    result,     \* the ValidationResult returned, None before the call
    payload,    \* the mapping handed to the writer, None before the call
    flattened,  \* the rows _flatten_section returned for each section
    df,         \* the rows of the DataFrame json_to_dataframe returned
    sheet,      \* the worksheet json_to_excel wrote, None before the call
    heap,       \* the containers that exist (HeapSpec)
    arg,        \* the slot of the argument (HeapSpec)
    calls,      \* the results returned so far, data as a slot (HeapSpec)
    loaded,     \* what load_from_bytes did, None before the call (PdfSpec)
    session,    \* st.session_state (AppSpec)
    origin,     \* for each session field, the run that stored it (AppSpec)
    run         \* the last click on Extract Data, None before it (AppSpec)

vars == <<input, pc, result, payload, flattened, df, sheet, heap, arg, calls,
          loaded, session, origin, run>>

heapVars == <<heap, arg, calls>>

appVars == <<loaded, session, origin, run>>

\* The state of the application's variables where the application is not
\* what runs.
AppIdle ==
    /\ loaded = NoneV
    /\ session = NoneV
    /\ origin = NoneV
    /\ run = NoneV

Init ==
    /\ input \in Inputs
    /\ pc = "start"
    /\ result = NoneV
    /\ payload = NoneV
    /\ flattened = <<>>
    /\ df = <<>>
    /\ sheet = NoneV
    /\ heap = <<>>
    /\ arg = NoneV
    /\ calls = <<>>
    /\ AppIdle

\* validate_json_structure(input)
Validate ==
    /\ pc = "start"
    /\ result' = validate_json_structure(input)
    /\ pc' = "validated"
    /\ UNCHANGED <<input, payload, flattened, df, sheet, heapVars, appVars>>

\* The mappings the writer can be called with: the data of a successful
\* validation, or the input itself when it is a mapping.
Payloads ==
    IF pc = "start" /\ IsDict(input) THEN {input}
    ELSE IF pc = "validated" /\ result.is_valid THEN {result.data}
    ELSE {}

\* ExcelWriter.json_to_dataframe(data)
JsonToDataFrame ==
    \E data \in Payloads :
        /\ payload' = data
        /\ flattened' = SectionRows(data)
        /\ df' = json_to_dataframe(data)
        /\ pc' = "framed"
        /\ UNCHANGED <<input, result, sheet, heapVars, appVars>>

\* ExcelWriter.json_to_excel(data)
JsonToExcel ==
    \E data \in Payloads :
        /\ payload' = data
        /\ flattened' = SectionRows(data)
        /\ sheet' = json_to_excel(data)
        /\ pc' = "written"
        /\ UNCHANGED <<input, result, df, heapVars, appVars>>

Next == Validate \/ JsonToDataFrame \/ JsonToExcel

Spec == Init /\ [][Next]_vars

(***************************************************************************)
(* The same validation with the caller's objects in view: the argument is  *)
(* a tree of dicts and lists the caller holds, and validate_json_structure *)
(* is called on it repeatedly.                                             *)
(***************************************************************************)
\* Calls of validate_json_structure on one argument.
MaxCalls == 2

\* The containers of a value laid out in the heap: [heap, slot].
RECURSIVE StoreValue(_, _)
RECURSIVE StoreAll(_, _, _)
StoreAll(h, values, slots) ==
    IF values = <<>> THEN [heap |-> h, slots |-> slots]
    ELSE LET r == StoreValue(h, Head(values))
         IN  StoreAll(r.heap, Tail(values), Append(slots, r.slot))

StoreValue(h, v) ==
    IF IsList(v)
    THEN LET r == StoreAll(h, v.elems, <<>>) IN Alloc(r.heap, ListV(r.slots))
    ELSE IF IsDict(v)
    THEN LET r == StoreAll(h, [i \in 1..Len(v.items) |-> v.items[i][2]], <<>>)
         IN  Alloc(r.heap,
                   DictV([i \in 1..Len(v.items) |-> <<v.items[i][1], r.slots[i]>>]))
    ELSE [heap |-> h, slot |-> v]

\* The inputs that are no text.
StructuredInputs ==
    {v \in DeepPayloads \cup WidePayloads \cup NonMappings : ~IsStr(v)}

HeapInit ==
    /\ input \in StructuredInputs
    /\ heap = StoreValue(<<>>, input).heap
    /\ arg = StoreValue(<<>>, input).slot
    /\ calls = <<>>
    /\ pc = "start"
    /\ result = NoneV
    /\ payload = NoneV
    /\ flattened = <<>>
    /\ df = <<>>
    /\ sheet = NoneV
    /\ AppIdle

\* validate_json_structure(arg), once more
HeapValidate ==
    /\ Len(calls) < MaxCalls
    /\ LET r == ValidateInHeap(heap, arg) IN
          /\ heap' = r.heap
          /\ calls' = Append(calls, r.result)
          /\ result' = [r.result EXCEPT !.data = Deref(r.heap, @)]
    /\ pc' = "called"
    /\ UNCHANGED <<input, arg, payload, flattened, df, sheet, appVars>>

HeapNext == HeapValidate

HeapSpec == HeapInit /\ [][HeapNext]_vars

(***************************************************************************)
(* _format_value on its own, as the tests call it: one value is formatted. *)
(***************************************************************************)
FormatInputs ==
    Scalars \cup {BoolV(TRUE), BoolV(FALSE), IntV(-12), FloatV(<<"1", ".", "5">>),
                  ListV(<<StrV(<<"P", "y">>), StrV(<<"G", "o">>)>>),
                  DictV(<< <<<<"l">>, StrV(<<"E">>)>>, <<COMMENTS, StrV(<<"x">>)>> >>)}
        \cup NestedDicts \cup TextDicts \cup Lists

FormatInit ==
    /\ input \in FormatInputs
    /\ pc = "start"
    /\ result = NoneV
    /\ payload = NoneV
    /\ flattened = <<>>
    /\ df = <<>>
    /\ sheet = NoneV
    /\ heap = <<>>
    /\ arg = NoneV
    /\ calls = <<>>
    /\ AppIdle

\* writer._format_value(input)
FormatValue ==
    /\ pc = "start"
    /\ result' = StrV(_format_value(input))
    /\ pc' = "formatted"
    /\ UNCHANGED <<input, payload, flattened, df, sheet, heapVars, appVars>>

FormatNext == FormatValue

FormatSpec == FormatInit /\ [][FormatNext]_vars

(***************************************************************************)
(* _clean_text on its own, as the tests call it: one text is cleaned.      *)
(***************************************************************************)
\* Characters of a text handed to _clean_text.
MaxText == 6

TextAlphabet == {"a", " ", "\n", "\t"}

CleanInputs == {StrV(t) : t \in SeqsUpTo(TextAlphabet, MaxText)}

CleanInit ==
    /\ input \in CleanInputs
    /\ pc = "start"
    /\ result = NoneV
    /\ payload = NoneV
    /\ flattened = <<>>
    /\ df = <<>>
    /\ sheet = NoneV
    /\ heap = <<>>
    /\ arg = NoneV
    /\ calls = <<>>
    /\ AppIdle

\* loader._clean_text(input)
CleanText ==
    /\ pc = "start"
    /\ result' = StrV(_clean_text(input.s))
    /\ pc' = "cleaned"
    /\ UNCHANGED <<input, payload, flattened, df, sheet, heapVars, appVars>>

CleanNext == CleanText

CleanSpec == CleanInit /\ [][CleanNext]_vars

(***************************************************************************)
(* The loader on the bytes of one upload: the bytes are validated, and     *)
(* loaded, as extract_data does one after the other.                       *)
(***************************************************************************)
\* Pages of an uploaded document.
MaxPages == 3

PageOutcomes ==
    { TextPage(<<"a">>), TextPage(<<" ", "\n">>), TextPage(<<>>),
      TextPage(<<"b", " ", " ", "c", "\n", " ", "\n", "\n">>),
      NonePage, RaisingPage }

PdfInputs == {Unreadable} \cup {Document(q) : q \in SeqsUpTo(PageOutcomes, MaxPages)}

PdfInit ==
    /\ input \in PdfInputs
    /\ pc = "start"
    /\ result = NoneV
    /\ payload = NoneV
    /\ flattened = <<>>
    /\ df = <<>>
    /\ sheet = NoneV
    /\ heap = <<>>
    /\ arg = NoneV
    /\ calls = <<>>
    /\ loaded = NoneV
    /\ session = NoneV
    /\ origin = NoneV
    /\ run = NoneV

\* pdf_loader.validate_pdf(pdf_bytes)
ValidatePdf ==
    /\ pc = "start"
    /\ result' = validate_pdf(input)
    /\ pc' = "pdf_validated"
    /\ UNCHANGED <<input, payload, flattened, df, sheet, heapVars, appVars>>

\* pdf_loader.load_from_bytes(pdf_bytes), on the bytes as uploaded or after
\* they were validated
LoadFromBytes ==
    /\ pc \in {"start", "pdf_validated"}
    /\ loaded' = load_from_bytes(input)
    /\ pc' = IF pc = "start" THEN "pdf_loaded" ELSE "pdf_validated_loaded"
    /\ UNCHANGED <<input, result, payload, flattened, df, sheet, heapVars,
                   session, origin, run>>

PdfNext == ValidatePdf \/ LoadFromBytes

PdfSpec == PdfInit /\ [][PdfNext]_vars

(***************************************************************************)
(* streamlit_app.py: the session.  The user uploads a document and clicks  *)
(* Extract Data, again and again; st.session_state lasts across the        *)
(* clicks.  ModelSelector and LLMExtractor are not part of the sources     *)
(* modelled here: constructing the selector returns or raises, and the     *)
(* extraction returns a mapping or raises.                                 *)
(***************************************************************************)
\* Clicks on Extract Data in one session.
MaxRuns == 3

SessionFields == {"extracted_data", "excel_buffer", "pdf_text"}

\* bool(v) of a Python value
PyTruthy(v) ==
    CASE v.t = "NoneType" -> FALSE
      [] v.t = "bool" -> v.b
      [] v.t = "int" -> v.n # 0
      [] v.t = "str" -> v.s # <<>>
      [] v.t = "list" -> v.elems # <<>>
      [] v.t = "dict" -> v.items # <<>>
      [] OTHER -> TRUE

\* What extract_data leaves behind: the session state, the calls it made
\* in order, how it ended, and the session fields it assigned.
RunResult(sess, steps, outcome, stored) ==
    [session |-> sess, steps |-> steps, outcome |-> outcome, stored |-> stored]

\* A plausible slip: the return after a failed validation is missing, so
\* the run goes on to load the text.
ExtractDataWithoutReturn(sess, uploaded_file, selector, extraction) ==
    LET loading == load_from_bytes(uploaded_file)
        steps == <<"validate_pdf", "load_from_bytes">>
    IN  IF loading.raised
        THEN RunResult(sess, steps, "failed", {})
        ELSE RunResult([sess EXCEPT !.pdf_text = StrV(loading.value)],
                       steps, "failed", {"pdf_text"})

\* extract_data(uploaded_file, ...): selector is what ModelSelector(...)
\* and get_available_models() do, extraction what LLMExtractor(...),
\* extract(pdf_text) and get_current_model_info() do.
extract_data(sess, uploaded_file, selector, extraction) ==
    LET validation == validate_pdf(uploaded_file) IN
    IF ~validation.value[1]
    THEN RunResult(sess, <<"validate_pdf">>, "invalid_pdf", {})
    ELSE
    LET loading == load_from_bytes(uploaded_file)
        steps2 == <<"validate_pdf", "load_from_bytes">>
    IN
    IF loading.raised THEN RunResult(sess, steps2, "failed", {})
    ELSE
    LET sess2 == [sess EXCEPT !.pdf_text = StrV(loading.value)]
        steps3 == Append(steps2, "ModelSelector")
    IN
    IF selector.raised THEN RunResult(sess2, steps3, "failed", {"pdf_text"})
    ELSE
    LET steps4 == Append(steps3, "extract") IN
    IF extraction.raised THEN RunResult(sess2, steps4, "failed", {"pdf_text"})
    ELSE
    LET sess4 == [sess2 EXCEPT !.extracted_data = extraction.value]
        steps5 == Append(steps4, "json_to_excel")
        excel_buffer == json_to_excel(extraction.value)
    IN
    IF excel_buffer.raised
    THEN RunResult(sess4, steps5, "failed", {"pdf_text", "extracted_data"})
    ELSE RunResult([sess4 EXCEPT !.excel_buffer = excel_buffer,
                                 !.extraction_complete = TRUE],
                   steps5, "complete", SessionFields)

\* streamlit_app.py:138: the results pane is rendered.
ResultsShown ==
    session.extraction_complete /\ PyTruthy(session.extracted_data)

\* The documents uploaded, the contents of the two key fields, and what
\* the model side does.
Uploads ==
    { Unreadable,
      Document(<<TextPage(<<"a">>)>>),
      Document(<<TextPage(<<"b">>), TextPage(<<"c", " ">>)>>),
      Document(<<TextPage(<<"b">>), RaisingPage>>) }

KeyTexts == {"", "key"}

SelectorOutcomes == {Returned("selector"), Raised(<<"ModelSelector">>)}

Extractions ==
    { Raised(<<"extract">>),
      Returned(DictV(<< <<<<"a">>, IntV(1)>>, <<<<"b">>, NoneV>> >>)),
      Returned(DictV(<< <<<<"s">>,
                 ListV(<<DictV(<< <<<<"k">>, IntV(1)>>,
                                  <<COMMENTS, ListV(<<StrV(<<"c">>)>>)>> >>)>>)>> >>)) }

\* initialize_session_state, before the first click
AppInit ==
    /\ session = [extraction_complete |-> FALSE, extracted_data |-> NoneV,
                  excel_buffer |-> NoneV, pdf_text |-> NoneV]
    /\ origin = [f \in SessionFields |-> [run |-> 0, file |-> NoneV]]
    /\ run = [number |-> 0, file |-> NoneV, openai_key |-> "",
              google_key |-> "", started |-> FALSE, steps |-> <<>>,
              outcome |-> "none"]
    /\ loaded = NoneV
    /\ input = NoneV
    /\ pc = "start"
    /\ result = NoneV
    /\ payload = NoneV
    /\ flattened = <<>>
    /\ df = <<>>
    /\ sheet = NoneV
    /\ heap = <<>>
    /\ arg = NoneV
    /\ calls = <<>>

\* main, streamlit_app.py:117-133: with a file uploaded the button is
\* clicked; without any key an error is shown, otherwise extract_data runs.
ExtractDataClick ==
    /\ run.number < MaxRuns
    /\ \E uploaded_file \in Uploads, openai_key \in KeyTexts,
          google_key \in KeyTexts, selector \in SelectorOutcomes,
          extraction \in Extractions :
          LET started == ~(openai_key = "" /\ google_key = "")
              r == IF started
                   THEN extract_data(session, uploaded_file, selector, extraction)
                   ELSE RunResult(session, <<>>, "no_key", {})
          IN  /\ session' = r.session
              /\ origin' = [f \in SessionFields |->
                               IF f \in r.stored
                               THEN [run |-> run.number + 1,
                                     file |-> uploaded_file]
                               ELSE origin[f]]
              /\ run' = [number |-> run.number + 1, file |-> uploaded_file,
                         openai_key |-> openai_key, google_key |-> google_key,
                         started |-> started, steps |-> r.steps,
                         outcome |-> r.outcome]
    /\ pc' = "clicked"
    /\ UNCHANGED <<input, result, payload, flattened, df, sheet, heapVars,
                   loaded>>

AppNext == ExtractDataClick

AppSpec == AppInit /\ [][AppNext]_vars

(***************************************************************************)
(* Reference definitions the properties below are stated with.  They are   *)
(* written from the statements, not from the code.                         *)
(***************************************************************************)
Validated == pc = "validated"

\* A line whose text, indentation aside, begins with the fence.
RefFenceLine(line) ==
    \E n \in 0..Len(line) :
        /\ \A i \in 1..n : line[i] \in PyWhitespace
        /\ Len(line) >= n + 3
        /\ \A i \in (n + 1)..(n + 3) : line[i] = Backtick

\* The lines strictly between the first fence line and the last later fence
\* line, or through the end of the text when no later line is a fence line.
RefInterior(text) ==
    LET lines == SplitLines(text)
        fences == {i \in 1..Len(lines) : RefFenceLine(lines[i])}
        first == CHOOSE i \in fences : \A j \in fences : i <= j
        later == fences \ {first}
        last == IF later = {} THEN Len(lines) + 1
                ELSE CHOOSE i \in later : \A j \in later : j <= i
    IN  JoinLines(SubSeq(lines, first + 1, last - 1))

\* The input is a text that strict parsing rejects.
StrictFails == IsStr(input) /\ ~JsonLoads(input.s).ok

\* ... and whose trimmed form begins with a fence.
Fenced == StrictFails /\ StartsWith(Strip(input.s), Fence)

\* The text is JSON neither as it stands nor after fence recovery.
NotJson ==
    /\ StrictFails
    /\ Fenced => ~JsonLoads(RefInterior(Strip(input.s))).ok

\* The top-level value validation judges: the input itself, or what the
\* text parses to (as it stands, or after fence recovery).
TopValue ==
    IF ~IsStr(input) THEN input
    ELSE IF JsonLoads(input.s).ok THEN JsonLoads(input.s).v
    ELSE JsonLoads(RefInterior(Strip(input.s))).v

HasTopValue == ~NotJson

Trimmed(s) ==
    s = <<>> \/ (s[1] \notin PyWhitespace /\ s[Len(s)] \notin PyWhitespace)

\* The number of different keys a mapping has once its keys are trimmed.
TrimmedKeyCount(items) ==
    Cardinality({Strip(items[i][1]) : i \in 1..Len(items)})

(***************************************************************************)
(* C1.  Whenever validate_json_structure has returned, data is present     *)
(* exactly when is_valid is true: a failure has no data and at least one   *)
(* error, a success has a non-empty mapping as data and no error.          *)
(***************************************************************************)
C1_DataIffValid ==
    Validated =>
        /\ (result.data # NoneV) <=> result.is_valid
        /\ ~result.is_valid =>
              /\ result.data = NoneV
              /\ result.errors # <<>>
        /\ result.is_valid =>
              /\ IsDict(result.data)
              /\ result.data.items # <<>>
              /\ result.errors = <<>>

\* A fenced text was validated with success.
C1_Witness ==
    /\ Validated
    /\ Fenced
    /\ result.is_valid
    /\ result.data # NoneV

(***************************************************************************)
(* C2.  A text that is JSON neither by strict parsing nor after fence      *)
(* recovery (the empty text and texts without a fence included) gives a    *)
(* returned result with is_valid false, exactly one error and no data.     *)
(***************************************************************************)
C2_ParseFailure ==
    (Validated /\ NotJson) =>
        /\ result.is_valid = FALSE
        /\ Len(result.errors) = 1
        /\ result.errors[1] = <<"Failed", "to", "parse", "JSON:">>
        /\ result.data = NoneV

\* A fenced text whose interior is not JSON was validated.
C2_Witness ==
    /\ Validated
    /\ Fenced
    /\ NotJson
    /\ RefInterior(Strip(input.s)) # <<>>
    /\ ~result.is_valid

(***************************************************************************)
(* C3.  When strict parsing fails and the trimmed text begins with a       *)
(* fence, the text parsed again is exactly the lines strictly between the  *)
(* first fence line and the last later fence line (through the end of the  *)
(* text when there is none), and when that interior is a JSON object with  *)
(* at least one key the result is valid with the normalized object as data.*)
(***************************************************************************)
C3_FenceRecovery ==
    (Validated /\ Fenced) =>
        LET interior == RefInterior(Strip(input.s))
            parsed == JsonLoads(interior)
        IN  /\ LoadInput(input).recovered
            /\ LoadInput(input).json_str = interior
            /\ (parsed.ok /\ IsDict(parsed.v) /\ parsed.v.items # <<>>) =>
                  /\ result.is_valid
                  /\ result.data = CleanData(parsed.v)

(***************************************************************************)
(* C4.  A top-level value that is no mapping gives is_valid false with     *)
(* exactly one error, which names the value's type; an empty mapping gives *)
(* is_valid false with exactly one error, which mentions emptiness; in     *)
(* both cases data is absent.                                              *)
(***************************************************************************)
C4_ShapeErrors ==
    (Validated /\ HasTopValue) =>
        /\ ~IsDict(TopValue) =>
              /\ ~result.is_valid
              /\ result.data = NoneV
              /\ Len(result.errors) = 1
              /\ result.errors[1][Len(result.errors[1])] = TopValue.t
              /\ result.errors[1][1] = "Expected"
        /\ (IsDict(TopValue) /\ TopValue.items = <<>>) =>
              /\ ~result.is_valid
              /\ result.data = NoneV
              /\ Len(result.errors) = 1
              /\ \E i \in 1..Len(result.errors[1]) : result.errors[1][i] = "empty"

\* A text that parses to a list was validated and the error names "list".
C4_Witness ==
    /\ Validated
    /\ IsStr(input)
    /\ HasTopValue
    /\ IsList(TopValue)
    /\ result.errors = << <<"Expected", "dictionary,", "got", "list">> >>

(***************************************************************************)
(* C5.  A non-empty top-level mapping is valid, and the warnings hold the  *)
(* one incompleteness warning exactly when the mapping has fewer than 2    *)
(* keys once its keys are trimmed; with 2 or more they are empty.          *)
(***************************************************************************)
C5_FewSectionsWarning ==
    (Validated /\ HasTopValue /\ IsDict(TopValue) /\ TopValue.items # <<>>) =>
        /\ result.is_valid
        /\ result.warnings =
              IF TrimmedKeyCount(TopValue.items) < 2
              THEN << <<"Data", "has", "very", "few", "sections.",
                        "Extraction", "might", "be", "incomplete.">> >>
              ELSE <<>>

\* Two keys that coincide once trimmed were validated: one warning.
C5_Witness ==
    /\ Validated
    /\ IsDict(input)
    /\ Len(input.items) = 2
    /\ TrimmedKeyCount(input.items) = 1
    /\ Len(result.warnings) = 1

(***************************************************************************)
(* C6.  As stated: after a successful validation every string anywhere in  *)
(* the payload (string elements of sequences included) and every key at    *)
(* any depth is trimmed, and the payload is a non-empty mapping.           *)
(***************************************************************************)
RECURSIVE TrimmedEverywhere(_)
TrimmedEverywhere(v) ==
    CASE IsStr(v) -> Trimmed(v.s)
      [] IsList(v) -> \A i \in 1..Len(v.elems) : TrimmedEverywhere(v.elems[i])
      [] IsDict(v) -> \A i \in 1..Len(v.items) :
                          /\ Trimmed(v.items[i][1])
                          /\ TrimmedEverywhere(v.items[i][2])
      [] OTHER -> TRUE

C6_AllTrimmed ==
    (Validated /\ result.is_valid) =>
        /\ IsDict(result.data)
        /\ result.data.items # <<>>
        /\ TrimmedEverywhere(result.data)

(***************************************************************************)
(* C6 amended.  After a successful validation the payload is a non-empty   *)
(* mapping; in it, and in every mapping reached from it through mapping    *)
(* values and through mapping elements of sequences that are themselves    *)
(* mapping values, every key is trimmed and every string that is a direct  *)
(* value of the mapping is trimmed.  (Strings that are elements of a       *)
(* sequence, and whatever lies inside a sequence that is an element of a   *)
(* sequence, are not covered.)                                             *)
(***************************************************************************)
RECURSIVE TrimmedMapping(_)
TrimmedMapping(d) ==
    \A i \in 1..Len(d.items) :
        LET v == d.items[i][2] IN
        /\ Trimmed(d.items[i][1])
        /\ IsStr(v) => Trimmed(v.s)
        /\ IsDict(v) => TrimmedMapping(v)
        /\ IsList(v) =>
              \A j \in 1..Len(v.elems) :
                  IsDict(v.elems[j]) => TrimmedMapping(v.elems[j])

C6_MappingsTrimmed ==
    (Validated /\ result.is_valid) =>
        /\ IsDict(result.data)
        /\ result.data.items # <<>>
        /\ TrimmedMapping(result.data)

\* A payload was validated whose cleaned form differs from the input and
\* still holds an untrimmed string inside a sequence.
C6_Witness ==
    /\ Validated
    /\ result.is_valid
    /\ HasTopValue
    /\ result.data # TopValue
    /\ ~TrimmedEverywhere(result.data)

(***************************************************************************)
(* C7.  Normalization relates a raw node to its cleaned node by the        *)
(* recursive rule.  A mapping: the cleaned keys are the trimmed raw keys,  *)
(* and the value under a trimmed key is the normalized value of the last   *)
(* raw entry with that trimmed key.  A string that is a mapping value is   *)
(* trimmed (the empty string stays empty).  A sequence: mapping elements   *)
(* are normalized; a sequence element is, when deep, itself treated as a   *)
(* sequence (the statement as given) and otherwise passes through          *)
(* unchanged; every other element passes through unchanged.                *)
(***************************************************************************)
RECURSIVE NormalizedMapping(_, _, _)
RECURSIVE NormalizedSequence(_, _, _)

NormalizedValue(raw, clean, deep) ==
    CASE IsDict(raw) -> NormalizedMapping(raw, clean, deep)
      [] IsList(raw) -> NormalizedSequence(raw, clean, deep)
      [] IsStr(raw) -> clean = StrV(Strip(raw.s)) /\ (raw.s = <<>> => clean = raw)
      [] OTHER -> clean = raw

NormalizedMapping(raw, clean, deep) ==
    /\ IsDict(clean)
    /\ {clean.items[i][1] : i \in 1..Len(clean.items)}
          = {Strip(raw.items[i][1]) : i \in 1..Len(raw.items)}
    /\ Len(clean.items) = TrimmedKeyCount(raw.items)
    /\ \A i \in 1..Len(raw.items) :
          (\A j \in (i + 1)..Len(raw.items) :
                Strip(raw.items[j][1]) # Strip(raw.items[i][1])) =>
            \E c \in 1..Len(clean.items) :
                /\ clean.items[c][1] = Strip(raw.items[i][1])
                /\ NormalizedValue(raw.items[i][2], clean.items[c][2], deep)

NormalizedSequence(raw, clean, deep) ==
    /\ IsList(clean)
    /\ Len(clean.elems) = Len(raw.elems)
    /\ \A i \in 1..Len(raw.elems) :
          CASE IsDict(raw.elems[i]) ->
                  NormalizedMapping(raw.elems[i], clean.elems[i], deep)
            [] IsList(raw.elems[i]) /\ deep ->
                  NormalizedSequence(raw.elems[i], clean.elems[i], deep)
            [] OTHER -> clean.elems[i] = raw.elems[i]

\* C7 as stated: sequences are treated alike wherever they occur.
C7_RecursiveRule ==
    (Validated /\ result.is_valid /\ HasTopValue) =>
        NormalizedMapping(TopValue, result.data, TRUE)

\* C7 amended: the rule for sequences applies to a sequence that is a
\* mapping value; a sequence that is an element of a sequence passes
\* through unchanged, whatever it holds.
C7_RuleForMappingValues ==
    (Validated /\ result.is_valid /\ HasTopValue) =>
        NormalizedMapping(TopValue, result.data, FALSE)

\* A payload was validated that holds a mapping to normalize inside a
\* sequence nested in a sequence, and normalization changed the payload.
C7_Witness ==
    /\ Validated
    /\ result.is_valid
    /\ HasTopValue
    /\ result.data # TopValue
    /\ ~NormalizedMapping(TopValue, result.data, TRUE)

(***************************************************************************)
(* C8.  validate_json_structure leaves the tree it is handed as it was:    *)
(* after any number of calls, successful or not, every container of the    *)
(* argument holds what it held before the first call, so the argument      *)
(* still stands for the same value; and the calls on that one argument all *)
(* returned equal results.                                                 *)
(***************************************************************************)
C8_InputUntouched ==
    (pc = "called") =>
        LET before == StoreValue(<<>>, input).heap IN
        /\ Len(heap) >= Len(before)
        /\ \A a \in 1..Len(before) : heap[a] = before[a]
        /\ Deref(heap, arg) = input
        /\ \A i \in 1..Len(calls) :
              [calls[i] EXCEPT !.data = Deref(heap, @)] = result

\* Two calls on a mapping that holds a sequence with a mapping to clean
\* both succeeded, and the data returned is not the argument's value.
C8_Witness ==
    /\ pc = "called"
    /\ Len(calls) = 2
    /\ result.is_valid
    /\ result.data # input
    /\ \E i \in 1..Len(input.items) :
          /\ IsList(input.items[i][2])
          /\ \E j \in 1..Len(input.items[i][2].elems) :
                IsDict(input.items[i][2].elems[j])

\* The two models of validate_json_structure agree: the result of a call in
\* the heap stands for the result computed on the value.
HeapAgreesWithValues ==
    (pc = "called") => result = validate_json_structure(input)

(***************************************************************************)
(* C9.  The rows of one flattening pass carry the indices 1, 2, ..., k in  *)
(* order, k being the number of rows all sections emitted together: in the *)
(* data frame of json_to_dataframe and in the data rows json_to_excel      *)
(* wrote (all k of them unless a write raised).  The count runs on across  *)
(* sections, and a section without rows takes no index.                    *)
(***************************************************************************)
RECURSIVE TotalRows(_)
TotalRows(sections) ==
    IF sections = <<>> THEN 0 ELSE Len(Head(sections)) + TotalRows(Tail(sections))

C9_GaplessIndices ==
    /\ pc = "framed" =>
          /\ Len(df) = TotalRows(flattened)
          /\ \A j \in 1..Len(df) : df[j]["#"] = j
    /\ pc = "written" =>
          /\ Len(sheet.rows) <= TotalRows(flattened)
          /\ ~sheet.raised => Len(sheet.rows) = TotalRows(flattened)
          /\ \A j \in 1..Len(sheet.rows) : sheet.rows[j][1] = j

\* A payload of two sections with rows each was framed: the second
\* section's rows go on from the first section's count.
C9_Witness ==
    /\ pc = "framed"
    /\ Len(flattened) = 2
    /\ Len(flattened[1]) >= 1
    /\ Len(flattened[2]) >= 2
    /\ df[Len(df)]["#"] = Len(flattened[1]) + Len(flattened[2])

(***************************************************************************)
(* C10.  No row of a mapping section, and no row of a sequence section     *)
(* (so none of a mapping item in it), has a key equal to "comments" in any *)
(* letter case; a mapping section emits exactly one row per key that is no *)
(* such key, in order; and a row of a mapping section has an empty comment *)
(* unless its own value is a mapping with a "comments" entry, whatever     *)
(* "comments" key stands beside it in the section.                         *)
(***************************************************************************)
NoCommentsWord(k) == Lower(k) # COMMENTS

C10_NoCommentsRows ==
    (pc \in {"framed", "written"}) =>
        \A i \in 1..Len(payload.items) :
            LET sec == payload.items[i][2]
                rows == flattened[i]
                kept == SelectSeq(DictKeys(sec.items), NoCommentsWord)
            IN  /\ IsDict(sec) =>
                      /\ [r \in 1..Len(rows) |-> rows[r].key] = kept
                      /\ \A r \in 1..Len(rows) :
                            LET v == DictGet(sec.items, rows[r].key, NoneV) IN
                            ~(IsDict(v) /\ HasKey(v.items, COMMENTS)) =>
                                rows[r].comments = StrV(<<>>)
                /\ (IsDict(sec) \/ IsList(sec)) =>
                      \A r \in 1..Len(rows) : NoCommentsWord(rows[r].key)

\* A mapping section with a capitalised "Comments" key beside another key
\* was flattened into one row.
C10_Witness ==
    /\ pc = "framed"
    /\ \E i \in 1..Len(payload.items) :
          LET sec == payload.items[i][2] IN
          /\ IsDict(sec)
          /\ Len(sec.items) = 2
          /\ HasKey(sec.items, <<"C">> \o Tail(COMMENTS))
          /\ Len(flattened[i]) = 1
          /\ flattened[i][1].comments = StrV(<<>>)


(***************************************************************************)
(* C11.  In a mapping section the rows are those of the retained entries   *)
(* (key not "comments" in any letter case), in order.  When the value of   *)
(* a retained entry is a mapping with a "comments" key, the row's comment  *)
(* is the value under that key, and the row's value is the formatted       *)
(* "text" entry of the nested mapping when it has one (nothing of its      *)
(* other entries appears) and the formatted nested mapping without         *)
(* "comments" otherwise.  For every other retained entry the row's value   *)
(* is the formatted value and the comment is the empty string.             *)
(***************************************************************************)
RetainedEntry(e) == Lower(e[1]) # COMMENTS

NotTheCommentsEntry(e) == e[1] # COMMENTS

EntryAt(items, k) == items[CHOOSE j \in 1..Len(items) : items[j][1] = k][2]

HasEntry(items, k) == \E j \in 1..Len(items) : items[j][1] = k

C11_MappingSectionRows ==
    (pc \in {"framed", "written"}) =>
        \A i \in 1..Len(payload.items) :
            LET sec == payload.items[i][2]
                rows == flattened[i]
            IN  IsDict(sec) =>
                  LET kept == SelectSeq(sec.items, RetainedEntry) IN
                  /\ Len(rows) = Len(kept)
                  /\ \A r \in 1..Len(kept) :
                        LET v == kept[r][2] IN
                        /\ rows[r].key = kept[r][1]
                        /\ IF IsDict(v) /\ HasEntry(v.items, COMMENTS)
                           THEN /\ rows[r].comments = EntryAt(v.items, COMMENTS)
                                /\ rows[r].value =
                                      IF HasEntry(v.items, TEXT)
                                      THEN _format_value(EntryAt(v.items, TEXT))
                                      ELSE _format_value(
                                             DictV(SelectSeq(v.items,
                                                     NotTheCommentsEntry)))
                           ELSE /\ rows[r].comments = StrV(<<>>)
                                /\ rows[r].value = _format_value(v)

\* A retained key whose nested mapping holds "comments", "text" and one
\* more entry was flattened: the row shows the text only, with the comment.
C11_Witness ==
    /\ pc = "framed"
    /\ \E i \in 1..Len(payload.items) :
          LET sec == payload.items[i][2] IN
          /\ IsDict(sec)
          /\ \E r \in 1..Len(flattened[i]) :
                LET v == DictGet(sec.items, flattened[i][r].key, NoneV) IN
                /\ IsDict(v)
                /\ HasEntry(v.items, COMMENTS)
                /\ HasEntry(v.items, TEXT)
                /\ HasEntry(v.items, <<"k">>)
                /\ flattened[i][r].value = <<"t">>
                /\ flattened[i][r].comments = StrV(<<"c">>)


(***************************************************************************)
(* C12.  In a sequence section the rows are the rows of its items, one     *)
(* item after the other.  A mapping item gives one row per key that is no  *)
(* comments key (suppression, as in C10, in any letter case), in the       *)
(* item's key order; the value under the item's "comments" key is the      *)
(* comment of the first of these rows, wherever "comments" stands among    *)
(* the keys, and every later row of the item has the empty comment; with   *)
(* no "comments" entry all the item's rows have the empty comment.         *)
(***************************************************************************)
\* The number of rows an item is to emit.
ItemRowCount(item) ==
    IF IsDict(item) THEN Len(SelectSeq(item.items, RetainedEntry)) ELSE 1

\* The number of rows the first n items are to emit.
RECURSIVE RowsBefore(_, _)
RowsBefore(elems, n) ==
    IF n = 0 THEN 0 ELSE RowsBefore(elems, n - 1) + ItemRowCount(elems[n])

C12_SequenceItemRows ==
    (pc \in {"framed", "written"}) =>
        \A i \in 1..Len(payload.items) :
            LET sec == payload.items[i][2]
                rows == flattened[i]
            IN  IsList(sec) =>
                  /\ Len(rows) = RowsBefore(sec.elems, Len(sec.elems))
                  /\ \A n \in 1..Len(sec.elems) :
                        LET item == sec.elems[n]
                            off == RowsBefore(sec.elems, n - 1)
                        IN  IsDict(item) =>
                              LET kept == SelectSeq(item.items, RetainedEntry) IN
                              \A r \in 1..Len(kept) :
                                 /\ rows[off + r].key = kept[r][1]
                                 /\ rows[off + r].comments =
                                       IF r = 1 /\ HasEntry(item.items, COMMENTS)
                                       THEN EntryAt(item.items, COMMENTS)
                                       ELSE StrV(<<>>)

\* A sequence section was flattened whose mapping item has "comments" as
\* its first key and two more keys: its first row carries the comment, its
\* second row none.
C12_Witness ==
    /\ pc = "framed"
    /\ \E i \in 1..Len(payload.items) :
          LET sec == payload.items[i][2] IN
          /\ IsList(sec)
          /\ \E n \in 1..Len(sec.elems) :
                LET item == sec.elems[n]
                    off == RowsBefore(sec.elems, n - 1)
                IN  /\ IsDict(item)
                    /\ Len(item.items) = 3
                    /\ item.items[1][1] = COMMENTS
                    /\ flattened[i][off + 1].comments = item.items[1][2]
                    /\ flattened[i][off + 1].comments # StrV(<<>>)
                    /\ flattened[i][off + 2].comments = StrV(<<>>)


(***************************************************************************)
(* C13.  _format_value returns the reference formatting of its argument:   *)
(* for a sequence the string forms of the elements joined by ", " in       *)
(* order; for a mapping the entries whose key is not "comments" in any     *)
(* letter case, each as "key: value", joined by "; " in mapping order, and *)
(* the empty string when no entry is left; for null the empty string; for  *)
(* anything else its string form.                                          *)
(***************************************************************************)
RECURSIVE RefJoined(_, _)
RefJoined(parts, sep) ==
    IF Len(parts) = 0 THEN <<>>
    ELSE IF Len(parts) = 1 THEN parts[1]
    ELSE RefJoined(SubSeq(parts, 1, Len(parts) - 1), sep) \o sep
            \o parts[Len(parts)]

RefFormat(v) ==
    CASE v.t = "list" ->
            RefJoined([i \in 1..Len(v.elems) |-> PyStr(v.elems[i])], <<",", " ">>)
      [] v.t = "dict" ->
            LET kept == SelectSeq(v.items, RetainedEntry) IN
            RefJoined([i \in 1..Len(kept) |->
                          kept[i][1] \o <<":", " ">> \o PyStr(kept[i][2])],
                      <<";", " ">>)
      [] v.t = "NoneType" -> <<>>
      [] OTHER -> PyStr(v)

C13_FormatValue ==
    (pc = "formatted") => result = StrV(RefFormat(input))

\* A mapping with a capitalised "Comments" entry beside another entry was
\* formatted into the one remaining pair.
C13_Witness ==
    /\ pc = "formatted"
    /\ IsDict(input)
    /\ Len(input.items) = 2
    /\ HasEntry(input.items, <<"C">> \o Tail(COMMENTS))
    /\ result = StrV(<<"k", ":", " ", " ", "v">>)


(***************************************************************************)
(* C14.  The text _clean_text returns holds no three newline characters in *)
(* a row and no two space characters in a row, whatever text it is given.  *)
(***************************************************************************)
HasRun(s, c, n) ==
    \E i \in 1..(Len(s) - n + 1) : \A j \in i..(i + n - 1) : s[j] = c

C14_NoLongRuns ==
    (pc = "cleaned") =>
        /\ ~HasRun(result.s, "\n", 3)
        /\ ~HasRun(result.s, " ", 2)

\* The half of it about spaces, on its own.
CleanTextNoSpaceRuns ==
    (pc = "cleaned") => ~HasRun(result.s, " ", 2)


(***************************************************************************)
(* C15.  validate_pdf raises for no bytes: it returns (True, None) or      *)
(* (False, message) with a message that is not empty.  It returns          *)
(* (True, None) only when the document opens, has 1 or 2 pages and its     *)
(* first page yields a text that is not blank; bytes that cannot be read,  *)
(* no pages, more than 2 pages and a blank first page each give            *)
(* (False, message).                                                       *)
(***************************************************************************)
Blank(page) ==
    \/ page.kind = "none"
    \/ page.kind = "text" /\ \A i \in 1..Len(page.text) :
                                page.text[i] \in PyWhitespace

YieldsText(page) == page.kind = "text" /\ ~Blank(page)

C15_ValidatePdf ==
    (pc \in {"pdf_validated", "pdf_validated_loaded"}) =>
        /\ ~result.raised
        /\ result.value[1] \in BOOLEAN
        /\ IF result.value[1] THEN result.value[2] = NoneV
                              ELSE Len(result.value[2]) > 0
        /\ result.value[1] =>
              /\ input.opens
              /\ Len(input.pages) \in 1..2
              /\ YieldsText(input.pages[1])
        /\ ( \/ ~input.opens
             \/ Len(input.pages) = 0
             \/ Len(input.pages) > 2
             \/ Blank(input.pages[1]) ) => ~result.value[1]

\* A two-page document whose first page yields text was validated and
\* accepted.
C15_Witness ==
    /\ pc = "pdf_validated"
    /\ Len(input.pages) = 2
    /\ result.value = <<TRUE, NoneV>>

\* The refusals, each reached: unreadable bytes, a first page whose
\* extraction raises, three pages.
ValidatePdfRefusals ==
    /\ pc = "pdf_validated"
    /\ ~result.value[1]
    /\ \/ ~input.opens
       \/ Len(input.pages) = 3
       \/ Len(input.pages) = 1 /\ input.pages[1].kind = "raises"


(***************************************************************************)
(* C19.  Whenever validate_pdf returned (True, None) for the bytes,        *)
(* load_from_bytes on the same bytes does not raise, and the text it       *)
(* returns is not blank and is the cleaned text of at most the first 2     *)
(* pages.                                                                  *)
(***************************************************************************)
FirstPagesText(pdf) ==
    LET texts == [i \in 1..Len(pdf.pages) |->
                    IF pdf.pages[i].kind = "text" THEN pdf.pages[i].text ELSE <<>>]
        one == texts[1]
        two == IF Len(texts) >= 2 /\ texts[2] # <<>>
               THEN texts[1] \o <<"\n", "\n">> \o texts[2] ELSE texts[1]
    IN  {_clean_text(one), _clean_text(two)}

C19_LoadAfterValidation ==
    (pc = "pdf_validated_loaded" /\ result.value[1]) =>
        /\ ~loaded.raised
        /\ Strip(loaded.value) # <<>>
        /\ loaded.value \in FirstPagesText(input)

\* What does hold: with no page whose extraction raises, the text is
\* returned as stated.
LoadAfterValidationUnlessPageRaises ==
    (/\ pc = "pdf_validated_loaded"
     /\ result.value[1]
     /\ \A i \in 1..Len(input.pages) : input.pages[i].kind # "raises") =>
        /\ ~loaded.raised
        /\ Strip(loaded.value) # <<>>
        /\ loaded.value \in FirstPagesText(input)


(***************************************************************************)
(* C16.  A comments key is matched in any letter case where its value is   *)
(* extracted, as it is where its row is suppressed: in a mapping section   *)
(* the comment of the row of a retained key whose value is a mapping with  *)
(* a comments key in any letter case is the value under that key, and in   *)
(* a sequence section the first row of a mapping item with such a key      *)
(* carries the value under it.                                             *)
(***************************************************************************)
\* The values a mapping holds under its keys that read "comments" in some
\* letter case.
CommentValues(items) ==
    {items[j][2] : j \in {k \in 1..Len(items) : Lower(items[k][1]) = COMMENTS}}

C16_CommentsInAnyCase ==
    (pc \in {"framed", "written"}) =>
        \A i \in 1..Len(payload.items) :
            LET sec == payload.items[i][2]
                rows == flattened[i]
            IN  /\ IsDict(sec) =>
                      LET kept == SelectSeq(sec.items, RetainedEntry) IN
                      \A r \in 1..Len(kept) :
                          LET v == kept[r][2] IN
                          (IsDict(v) /\ CommentValues(v.items) # {}) =>
                              rows[r].comments \in CommentValues(v.items)
                /\ IsList(sec) =>
                      \A n \in 1..Len(sec.elems) :
                          LET item == sec.elems[n]
                              off == RowsBefore(sec.elems, n - 1)
                          IN  (/\ IsDict(item)
                               /\ CommentValues(item.items) # {}
                               /\ ItemRowCount(item) > 0) =>
                                  rows[off + 1].comments
                                      \in CommentValues(item.items)

(***************************************************************************)
(* C17.  A null value is shown as the empty string wherever flattening     *)
(* makes a row's value of it: under a key of a mapping section, under a    *)
(* key of a mapping item of a sequence section, as a bare item of a        *)
(* sequence section, and as the value of a top-level section.              *)
(***************************************************************************)
C17_NullShownEmpty ==
    (pc \in {"framed", "written"}) =>
        \A i \in 1..Len(payload.items) :
            LET sec == payload.items[i][2]
                rows == flattened[i]
            IN  /\ sec = NoneV => (Len(rows) = 1 /\ rows[1].value = <<>>)
                /\ IsDict(sec) =>
                      LET kept == SelectSeq(sec.items, RetainedEntry) IN
                      \A r \in 1..Len(kept) :
                          kept[r][2] = NoneV => rows[r].value = <<>>
                /\ IsList(sec) =>
                      \A n \in 1..Len(sec.elems) :
                          LET item == sec.elems[n]
                              off == RowsBefore(sec.elems, n - 1)
                          IN  /\ item = NoneV => rows[off + 1].value = <<>>
                              /\ IsDict(item) =>
                                    LET kept == SelectSeq(item.items,
                                                          RetainedEntry) IN
                                    \A r \in 1..Len(kept) :
                                        kept[r][2] = NoneV =>
                                            rows[off + r].value = <<>>

\* What does hold: a null under a key, of a mapping section or of a
\* mapping item, is shown as the empty string.
NullUnderKeyShownEmpty ==
    (pc \in {"framed", "written"}) =>
        \A i \in 1..Len(payload.items) :
            LET sec == payload.items[i][2]
                rows == flattened[i]
            IN  /\ IsDict(sec) =>
                      LET kept == SelectSeq(sec.items, RetainedEntry) IN
                      \A r \in 1..Len(kept) :
                          kept[r][2] = NoneV => rows[r].value = <<>>
                /\ IsList(sec) =>
                      \A n \in 1..Len(sec.elems) :
                          LET item == sec.elems[n]
                              off == RowsBefore(sec.elems, n - 1)
                          IN  IsDict(item) =>
                                LET kept == SelectSeq(item.items,
                                                      RetainedEntry) IN
                                \A r \in 1..Len(kept) :
                                    kept[r][2] = NoneV =>
                                        rows[off + r].value = <<>>


(***************************************************************************)
(* C18.  Whenever the results pane is shown, the extracted data, the Excel *)
(* buffer and the PDF text in the session state were all stored by the     *)
(* same run of extract_data, on the same uploaded document, whatever runs  *)
(* succeeded or failed before.                                             *)
(***************************************************************************)
C18_ResultsFromOneRun ==
    (pc = "clicked" /\ ResultsShown) =>
        /\ origin["extracted_data"] = origin["excel_buffer"]
        /\ origin["extracted_data"] = origin["pdf_text"]
        /\ origin["extracted_data"].run > 0

(***************************************************************************)
(* C20.  A click starts extract_data only with at least one API key given; *)
(* and when validate_pdf refuses the uploaded document, the run makes no   *)
(* call after validate_pdf (no text extraction, no model initialization,   *)
(* no model call, no Excel conversion) and the session state after the     *)
(* click is the session state before it, field for field.                  *)
(***************************************************************************)
C20_RefusedDocumentChangesNothing ==
    [][ (run'.number # run.number) =>
            /\ run'.started => (run'.openai_key # "" \/ run'.google_key # "")
            /\ (run'.started /\ ~validate_pdf(run'.file).value[1]) =>
                  /\ run'.steps = <<"validate_pdf">>
                  /\ session' = session ]_vars

\* After a run that completed, a click with a key given on a document that
\* validate_pdf refuses: the completed run's results are still in place.
C20_Witness ==
    /\ pc = "clicked"
    /\ run.number >= 2
    /\ run.started
    /\ ~validate_pdf(run.file).value[1]
    /\ run.steps = <<"validate_pdf">>
    /\ session.extraction_complete
    /\ origin["pdf_text"].run = run.number - 1

=============================================================================
